---------------------------- MODULE Spec2Model ----------------------------
(***************************************************************************)
(* State-machine model of the Raven portfolio RAG server (server.js): the  *)
(* chat handler with its conversation memory, and the admin handlers that  *)
(* mutate the in-memory vector database and rewrite vector-database.json.  *)
(*                                                                         *)
(* Node runs one handler at a time; a handler yields only at an `await`.   *)
(* Every action below is therefore one run-to-completion segment of a      *)
(* handler: from its entry (or from the resumption of an await) up to its  *)
(* next await or its response.                                             *)
(*                                                                         *)
(* Strings are modelled as sequences of tokens, so that `a + b` is \o and  *)
(* the empty string is << >>.  Numbers are exact: a cosine score is kept   *)
(* as the pair (dot, na*nb) and compared by cross-multiplication, NaN is   *)
(* a value of its own.  Floating-point rounding is not modelled.           *)
(***************************************************************************)
EXTENDS Integers, Sequences, FiniteSets

---------------------------------------------------------------------------
(* Bounds of the model *)

MaxChats == 4
MaxChatSlots == 2
MaxMutations == 3
MaxAdminSlots == 2
MixedChats == 2
MixedMutations == 2
RankChats == 2
TornChats == 1
TornMutations == 1
AliasChats == 5
PairChats == 4
LiveChats == 2
LiveMutations == 1

(* Program constants *)

MAX_MEMORY_MESSAGES == 6
TopK == 3

\* The relevance threshold 0.45, as the fraction 9 / 20.
ThresholdNum == 9
ThresholdDen == 20

---------------------------------------------------------------------------
(* Input domains *)

Sessions == {"s1", "s2"}
Questions == {"q1", "q2"}
Replies == {"a1", "a2"}
Texts == {"t1", "t2"}

ChatSlots == 1..MaxChatSlots
AdminSlots == 1..MaxAdminSlots

\* Arrays alive at once: one per session in the Map, one per request in flight.
ArrIds == 1..(Cardinality(Sessions) + MaxChatSlots)
NoArr == 0

PERSONA == <<"You are Raven", "Use the provided context only if relevant", "\n\n">>
SEP == "\n\n"

Min(a, b) == IF a <= b THEN a ELSE b
Range(f) == {f[i] : i \in DOMAIN f}

\* A JS string held as a token sequence; "" (and a missing field) is << >>.
Str(s) == IF s = "" THEN << >> ELSE <<s>>

---------------------------------------------------------------------------
(* Similarity scoring, as the chat handler computes it inline *)

NaN == [nan |-> TRUE, num |-> 0, den |-> 1]
Num(n, d) == [nan |-> FALSE, num |-> n, den |-> d]

RECURSIVE SumTo(_, _)
SumTo(f, n) == IF n = 0 THEN 0 ELSE f[n] + SumTo(f, n - 1)

\* The loop of server.js:136-142 runs i over the query's indexes.  An index
\* the entry's vector lacks reads `undefined`, which makes every sum NaN.
\* The value is dot / (sqrt(na) * sqrt(nb)), kept as num / sqrt(den);
\* a zero norm gives 0 / 0 = NaN.
InlineScore(qv, ev) ==
    LET n   == Len(qv)
        dot == SumTo([i \in 1..n |-> qv[i] * ev[i]], n)
        na  == SumTo([i \in 1..n |-> qv[i] * qv[i]], n)
        nb  == SumTo([i \in 1..n |-> ev[i] * ev[i]], n)
    IN  IF n > Len(ev) THEN NaN
        ELSE IF na * nb = 0 THEN NaN
        ELSE Num(dot, na * nb)

Sgn(x) == IF x > 0 THEN 1 ELSE IF x < 0 THEN -1 ELSE 0

\* x < y for two numbers num/sqrt(den): t |-> sgn(t) * t^2 is increasing.
ScoreLess(x, y) ==
    Sgn(x.num) * x.num * x.num * y.den < Sgn(y.num) * y.num * y.num * x.den

ScoreEq(x, y) == ~x.nan /\ ~y.nan /\ ~ScoreLess(x, y) /\ ~ScoreLess(y, x)

\* (a, b) => b.score - a.score, as Array.prototype.sort reads it: negative
\* puts a first; NaN is read as +0.
Compare(a, b) ==
    IF a.score.nan \/ b.score.nan THEN 0
    ELSE IF ScoreLess(b.score, a.score) THEN -1
    ELSE IF ScoreLess(a.score, b.score) THEN 1
    ELSE 0

\* A comparator is consistent on a list when "compares equal" is transitive
\* (the other conditions of ECMAScript's definition hold for Compare).
Consistent(list) ==
    \A i, j, k \in DOMAIN list :
        (Compare(list[i], list[j]) = 0 /\ Compare(list[j], list[k]) = 0)
            => Compare(list[i], list[k]) = 0

RECURSIVE Insert(_, _)
\* x goes after every element it does not strictly precede: a stable insertion.
Insert(sorted, x) ==
    IF sorted = << >> THEN <<x>>
    ELSE IF Compare(x, sorted[Len(sorted)]) < 0
         THEN Append(Insert(SubSeq(sorted, 1, Len(sorted) - 1), x), sorted[Len(sorted)])
         ELSE Append(sorted, x)

RECURSIVE StableSort(_)
StableSort(list) ==
    IF list = << >> THEN << >>
    ELSE Insert(StableSort(SubSeq(list, 1, Len(list) - 1)), list[Len(list)])

Orderings(list) ==
    LET n == Len(list)
    IN  { [i \in 1..n |-> list[p[i]]] :
            p \in { q \in [1..n -> 1..n] : \A i, j \in 1..n : q[i] = q[j] => i = j } }

\* Array.prototype.sort: stable under a consistent comparator; with an
\* inconsistent one the order is implementation-defined.
SortOutcomes(list) ==
    IF Consistent(list) THEN {StableSort(list)} ELSE Orderings(list)

ScoreAll(qv, db) ==
    [i \in 1..Len(db) |-> [text |-> db[i].text, score |-> InlineScore(qv, db[i].embedding)]]

Slice(list, k) == SubSeq(list, 1, Min(k, Len(list)))

\* The rankings .map(score).sort(cmp).slice(0, 3) can produce.
RankOutcomes(qv, db) == { Slice(s, TopK) : s \in SortOutcomes(ScoreAll(qv, db)) }

RECURSIVE Join(_)
\* texts.join("\n\n")
Join(texts) ==
    IF texts = << >> THEN << >>
    ELSE IF Len(texts) = 1 THEN Str(texts[1])
    ELSE Join(SubSeq(texts, 1, Len(texts) - 1)) \o <<SEP>> \o Str(texts[Len(texts)])

ContextOf(ranked) == Join([i \in 1..Len(ranked) |-> ranked[i].text])

---------------------------------------------------------------------------
(* Conversation memory *)

\* history.slice(-n)
LastN(list, n) ==
    IF Len(list) <= n THEN list ELSE SubSeq(list, Len(list) - n + 1, Len(list))

UserTurn(q) == [role |-> "user", content |-> Str(q)]
AssistantTurn(a) == [role |-> "assistant", content |-> Str(a)]

\* The messages array of server.js:152-161.
Messages(context, history, q) ==
    <<[role |-> "system", content |-> PERSONA \o context]>> \o history \o <<UserTurn(q)>>

---------------------------------------------------------------------------
(* State *)

VARIABLES
    openai,               \* the completion client handle: TRUE = created, FALSE = null
    embeddingModel,       \* the embedding model handle: TRUE = created, FALSE = null
    vectorDatabase,       \* the in-memory entry array
    snapshot,             \* content of vector-database.json
    conversationMemory,   \* the Map: session id -> array (NoArr = no key)
    heap,                 \* the history arrays, by identity
    chat,                 \* chat requests in flight, by slot
    admin,                \* ingest and update requests in flight, by slot
    nChats,               \* chat requests admitted so far
    nMutations,           \* admin mutating requests admitted so far
    out,                  \* the response sent last
    unanswered,           \* requests whose handler ended without a response
    pushed                \* history: turns pushed so far, per session

vars == <<openai, embeddingModel, vectorDatabase, snapshot, conversationMemory,
          heap, chat, admin, nChats, nMutations, out, unanswered, pushed>>

storeVars == <<vectorDatabase, snapshot>>
memoryVars == <<conversationMemory, heap>>

\* `seen` is history: how many turns the array held when the request took it.
IdleChat ==
    [pc |-> "idle", session |-> "", question |-> "", history |-> NoArr,
     seen |-> 0, qv |-> << >>, ranked |-> << >>, messages |-> << >>]

IdleAdmin == [pc |-> "idle", op |-> "", id |-> 0, text |-> ""]

NoResponse ==
    [op |-> "none", id |-> 0, status |-> 0, body |-> << >>, total |-> 0,
     entries |-> << >>]

\* A response, with the :id the request named (0 when it names none), the
\* totalEntries of its body (0 when it has none) and the entries it lists
\* (none, but for the admin listing).
Response(op, status, body) ==
    [op |-> op, id |-> 0, status |-> status, body |-> body, total |-> 0,
     entries |-> << >>]

\* JSON.stringify(vectorDatabase, null, 2): the entries in order, each with its
\* own fields; a field that was never set (updatedAt) is not written.
Stringify(db) ==
    [i \in 1..Len(db) |->
        [id |-> db[i].id, text |-> db[i].text, embedding |-> db[i].embedding,
         updatedAt |-> db[i].updatedAt]]

\* The file: absent, or holding a JSON text.
NoFile == [exists |-> FALSE, json |-> << >>]
File(json) == [exists |-> TRUE, json |-> json]

Entry(id, text, vec) == [id |-> id, text |-> text, embedding |-> vec, updatedAt |-> 0]

\* Stores the process may load at start.
InitStores ==
    { << >>,
      <<Entry(1, "t1", <<1, 0>>)>>,
      <<Entry(1, "t1", <<1, 0>>), Entry(2, "t2", <<0, 1>>)>> }

\* Larger stores, with a zero vector, equal scores and more than TopK entries.
RankStores ==
    { <<Entry(1, "t1", <<1, 0>>), Entry(2, "t2", <<0, 0>>), Entry(3, "t3", <<1, 1>>)>>,
      <<Entry(1, "t1", <<0, 1>>), Entry(2, "t2", <<1, 1>>), Entry(3, "t3", <<1, 0>>),
        Entry(4, "t4", <<2, 2>>)>> }

\* The state after the module is loaded: the handles follow the environment
\* (API keys set or not), the store is what vector-database.json held (a
\* missing file gives the empty store), the Map is empty.
InitWith(stores) ==
    /\ openai \in BOOLEAN
    /\ embeddingModel \in BOOLEAN
    /\ vectorDatabase \in stores
    /\ snapshot \in {File(Stringify(vectorDatabase))} \cup
                    (IF vectorDatabase = << >> THEN {NoFile} ELSE {})
    /\ conversationMemory = [s \in Sessions |-> NoArr]
    /\ heap = [a \in ArrIds |-> << >>]
    /\ chat = [r \in ChatSlots |-> IdleChat]
    /\ admin = [a \in AdminSlots |-> IdleAdmin]
    /\ nChats = 0
    /\ nMutations = 0
    /\ out = NoResponse
    /\ unanswered = 0
    /\ pushed = [s \in Sessions |-> 0]

Init == InitWith(InitStores)

---------------------------------------------------------------------------
(* Array identities *)

Referenced(mem, ch) ==
    ({mem[s] : s \in Sessions} \cup {ch[r].history : r \in ChatSlots}) \ {NoArr}

Least(S) == CHOOSE x \in S : \A y \in S : x <= y

\* A new array takes the least identity nothing refers to.
NewArr(mem, ch) == Least(ArrIds \ Referenced(mem, ch))

\* Arrays nothing refers to any more are gone.
Collect(h, mem, ch) ==
    [a \in ArrIds |-> IF a \in Referenced(mem, ch) THEN h[a] ELSE << >>]

FreeChatSlot(r) == chat[r].pc = "idle" /\ \A q \in ChatSlots : q < r => chat[q].pc # "idle"

---------------------------------------------------------------------------
(* POST /api/chat *)

\* The handler past its two checks: take the session's history, and either
\* await the query's embedding or, with no embedding model or an empty store,
\* go straight to the completion call with an empty context.
Admit(r, s, q) ==
    LET h   == IF conversationMemory[s] # NoArr
               THEN conversationMemory[s]
               ELSE NewArr(conversationMemory, chat)
        req == [IdleChat EXCEPT !.session = s, !.question = q, !.history = h,
                                !.seen = IF conversationMemory[s] # NoArr
                                         THEN Len(heap[h]) ELSE 0]
    IN  /\ IF embeddingModel /\ Len(vectorDatabase) > 0
           THEN chat' = [chat EXCEPT ![r] = [req EXCEPT !.pc = "embed"]]
           ELSE chat' = [chat EXCEPT ![r] =
                           [req EXCEPT !.pc = "complete",
                                       !.messages = Messages(<< >>, heap[h], q)]]
        /\ heap' = [heap EXCEPT ![h] = IF conversationMemory[s] # NoArr
                                       THEN heap[h] ELSE << >>]
        /\ UNCHANGED out

\* Mutant of ChatRequest: an empty store is answered 500, as a store that is
\* still loading.
ChatRequestNeedsStore(r, s, q) ==
    /\ FreeChatSlot(r)
    /\ nChats' = nChats + 1
    /\ IF ~openai
       THEN /\ out' = Response("chat", 500, <<"AI not initialized">>)
            /\ UNCHANGED <<chat, heap>>
       ELSE IF q = ""
       THEN /\ out' = Response("chat", 400, <<"Missing question">>)
            /\ UNCHANGED <<chat, heap>>
       ELSE IF Len(vectorDatabase) = 0
       THEN /\ out' = Response("chat", 500, <<"Server is still loading">>)
            /\ UNCHANGED <<chat, heap>>
       ELSE Admit(r, s, q)
    /\ UNCHANGED <<openai, embeddingModel, storeVars, conversationMemory, admin,
                   nMutations, unanswered, pushed>>

\* Entry of the handler, up to the first await or an early response.
ChatRequest(r, s, q) ==
    /\ FreeChatSlot(r)
    /\ nChats' = nChats + 1
    /\ IF ~openai
       THEN /\ out' = Response("chat", 500, <<"AI not initialized">>)
            /\ UNCHANGED <<chat, heap>>
       ELSE IF q = ""
       THEN /\ out' = Response("chat", 400, <<"Missing question">>)
            /\ UNCHANGED <<chat, heap>>
       ELSE Admit(r, s, q)
    /\ UNCHANGED <<openai, embeddingModel, storeVars, conversationMemory, admin,
                   nMutations, unanswered, pushed>>

\* embedContent resolved with the vector qv: score, sort, slice, join, and
\* send the messages to the completion client.
ChatEmbedded(r, qv) ==
    /\ chat[r].pc = "embed"
    /\ \E ranked \in RankOutcomes(qv, vectorDatabase) :
         chat' = [chat EXCEPT ![r] =
                    [@ EXCEPT !.pc = "complete", !.qv = qv, !.ranked = ranked,
                              !.messages = Messages(ContextOf(ranked),
                                                    heap[chat[r].history],
                                                    chat[r].question)]]
    /\ UNCHANGED <<openai, embeddingModel, storeVars, memoryVars, admin, nChats,
                   nMutations, out, unanswered, pushed>>

\* Mutant of ChatError: the user turn was pushed and stored before the
\* completion call, and the catch block does not take it back.
ChatErrorKeepsTurn(r) ==
    /\ chat' = [chat EXCEPT ![r] = IdleChat]
    /\ conversationMemory' =
          [conversationMemory EXCEPT ![chat[r].session] = chat[r].history]
    /\ heap' = Collect([heap EXCEPT ![chat[r].history] =
                           Append(@, UserTurn(chat[r].question))],
                       conversationMemory', chat')
    /\ out' = Response("chat", 500, <<"AI service error">>)
    /\ UNCHANGED <<openai, embeddingModel, storeVars, admin,
                   nChats, nMutations, unanswered, pushed>>

\* The catch block: any rejection or throw inside the try.
ChatError(r) ==
    /\ chat' = [chat EXCEPT ![r] = IdleChat]
    /\ heap' = Collect(heap, conversationMemory, chat')
    /\ out' = Response("chat", 500, <<"AI service error">>)
    /\ UNCHANGED <<openai, embeddingModel, storeVars, conversationMemory, admin,
                   nChats, nMutations, unanswered, pushed>>

\* embedContent rejected, or its result has no embedding.values.
ChatEmbedFailed(r) ==
    /\ chat[r].pc = "embed"
    /\ ChatError(r)

\* What a failed completion call reports: err.status 429 (quota or rate
\* exhaustion), or anything else (another status, no status, a completion
\* whose choices[0].message cannot be read).
Causes == {"rate_limit", "other"}

\* completions.create rejected for `cause`.  The catch block logs err and
\* answers without looking at it.
ChatCompleteFailed(r, cause) ==
    /\ chat[r].pc = "complete"
    /\ cause \in Causes
    /\ ChatError(r)

\* history.push(user); history.push(assistant): in place, on the array the
\* request took at its entry.
Pushed(h, q, reply) == Append(Append(h, UserTurn(q)), AssistantTurn(reply))

\* Mutant of Stored: slice(-(MAX_MEMORY_MESSAGES - 1)), an odd window.
StoredOdd(h) == LastN(h, MAX_MEMORY_MESSAGES - 1)

\* Mutant of Stored: slice(0, MAX_MEMORY_MESSAGES) keeps the oldest turns.
StoredOldest(h) == SubSeq(h, 1, Min(Len(h), MAX_MEMORY_MESSAGES))

\* What conversationMemory.set stores: history.slice(-MAX_MEMORY_MESSAGES).
Stored(h) == LastN(h, MAX_MEMORY_MESSAGES)

\* Mutant of ChatCompleted: the Map is rebuilt with the one session of the
\* request, `conversationMemory = new Map([[sessionId, ...]])`.
ChatCompletedAlone(r, reply) ==
    /\ chat[r].pc = "complete"
    /\ LET s     == chat[r].session
           h     == chat[r].history
           grown == [heap EXCEPT ![h] = Pushed(heap[h], chat[r].question, reply)]
           rest  == [chat EXCEPT ![r] = IdleChat]
           n     == NewArr([t \in Sessions |-> NoArr], rest)
           mem   == [t \in Sessions |-> IF t = s THEN n ELSE NoArr]
       IN  /\ chat' = rest
           /\ conversationMemory' = mem
           /\ heap' = Collect([grown EXCEPT ![n] = Stored(grown[h])], mem, rest)
    /\ pushed' = [pushed EXCEPT ![chat[r].session] = @ + 2]
    /\ out' = Response("chat", 200, Str(reply))
    /\ UNCHANGED <<openai, embeddingModel, storeVars, admin, nChats, nMutations,
                   unanswered>>

\* completions.create resolved with `reply`: memory update and the answer.
ChatCompleted(r, reply) ==
    /\ chat[r].pc = "complete"
    /\ LET s     == chat[r].session
           h     == chat[r].history
           grown == [heap EXCEPT ![h] = Pushed(heap[h], chat[r].question, reply)]
           rest  == [chat EXCEPT ![r] = IdleChat]
           n     == NewArr([conversationMemory EXCEPT ![s] = NoArr], rest)
           mem   == [conversationMemory EXCEPT ![s] = n]
       IN  /\ chat' = rest
           /\ conversationMemory' = mem
           /\ heap' = Collect([grown EXCEPT ![n] = Stored(grown[h])], mem, rest)
    /\ pushed' = [pushed EXCEPT ![chat[r].session] = @ + 2]
    /\ out' = Response("chat", 200, Str(reply))
    /\ UNCHANGED <<openai, embeddingModel, storeVars, admin, nChats, nMutations,
                   unanswered>>

---------------------------------------------------------------------------
(* Admin handlers (behind requireAdmin: the caller is a logged-in admin) *)

SeedIds == {e.id : e \in UNION {Range(db) : db \in InitStores \cup RankStores}}

\* `k_${Date.now()}_${random}`: an id no other entry has; the n-th admin
\* request gets the n-th one.
FreshId(n) == Cardinality(SeedIds) + n

FreeAdminSlot(a) ==
    admin[a].pc = "idle" /\ \A b \in AdminSlots : b < a => admin[b].pc # "idle"

\* An async handler whose promise rejects: Express 4 sends nothing.
Unanswered ==
    /\ unanswered' = unanswered + 1
    /\ UNCHANGED out

\* Mutant of Without: splice(findIndex(e => e.id === id), 1), where a
\* findIndex of -1 makes splice remove the last entry.
WithoutSplice(db, id) ==
    LET hits == {i \in DOMAIN db : db[i].id = id}
        k    == IF hits = {} THEN Len(db) ELSE Least(hits)
    IN  [i \in 1..(Len(db) - 1) |-> IF i < k THEN db[i] ELSE db[i + 1]]

\* vectorDatabase.filter(e => e.id !== id)
Without(db, id) == SelectSeq(db, LAMBDA e : e.id # id)

\* vectorDatabase.find(e => e.id === id) succeeds
Has(db, id) == \E i \in DOMAIN db : db[i].id = id

\* Mutant of Replaced: the text is assigned, the embedding is not.
ReplacedTextOnly(db, id, text, vec) ==
    [i \in DOMAIN db |->
        IF db[i].id = id
        THEN [db[i] EXCEPT !.text = text, !.updatedAt = 1]
        ELSE db[i]]

\* entry.text = ...; entry.embedding = ...; entry.updatedAt = ...: on the
\* object `find` returned, which is in the array only if it was not removed.
Replaced(db, id, text, vec) ==
    [i \in DOMAIN db |->
        IF db[i].id = id
        THEN [db[i] EXCEPT !.text = text, !.embedding = vec, !.updatedAt = 1]
        ELSE db[i]]

\* POST /api/admin/ingest, up to `await embeddingModel.embedContent(text)`.
IngestRequest(a, text) ==
    /\ FreeAdminSlot(a)
    /\ nMutations' = nMutations + 1
    /\ IF text = ""
       THEN /\ out' = Response("ingest", 400, <<"Missing text">>)
            /\ UNCHANGED <<admin, unanswered>>
       ELSE IF ~embeddingModel
       THEN /\ Unanswered
            /\ UNCHANGED admin
       ELSE /\ admin' = [admin EXCEPT ![a] =
                           [pc |-> "embed", op |-> "ingest",
                            id |-> FreshId(nMutations'), text |-> text]]
            /\ UNCHANGED <<out, unanswered>>
    /\ UNCHANGED <<openai, embeddingModel, storeVars, memoryVars, chat, nChats, pushed>>

\* Mutant of IngestEmbedded: the entry is pushed onto the array re-read from
\* the file instead of the array in memory.
IngestEmbeddedFromFile(a, vec, written) ==
    /\ admin[a].pc = "embed" /\ admin[a].op = "ingest"
    /\ vectorDatabase' = Append(snapshot.json, Entry(admin[a].id, admin[a].text, vec))
    /\ admin' = [admin EXCEPT ![a] = IdleAdmin]
    /\ IF written
       THEN /\ snapshot' = File(Stringify(vectorDatabase'))
            /\ out' = [Response("ingest", 200, <<"Saved">>)
                          EXCEPT !.total = Len(vectorDatabase')]
            /\ UNCHANGED unanswered
       ELSE /\ Unanswered
            /\ UNCHANGED snapshot
    /\ UNCHANGED <<openai, embeddingModel, memoryVars, chat, nChats, nMutations, pushed>>

\* The embedding arrived: push, writeFileSync, respond.
IngestEmbedded(a, vec, written) ==
    /\ admin[a].pc = "embed" /\ admin[a].op = "ingest"
    /\ vectorDatabase' = Append(vectorDatabase, Entry(admin[a].id, admin[a].text, vec))
    /\ admin' = [admin EXCEPT ![a] = IdleAdmin]
    /\ IF written
       THEN /\ snapshot' = File(Stringify(vectorDatabase'))
            /\ out' = [Response("ingest", 200, <<"Saved">>)
                          EXCEPT !.total = Len(vectorDatabase')]
            /\ UNCHANGED unanswered
       ELSE /\ Unanswered
            /\ UNCHANGED snapshot
    /\ UNCHANGED <<openai, embeddingModel, memoryVars, chat, nChats, nMutations, pushed>>

\* Mutant of UpdateRequest: no find, no 404: every id goes on to the
\* embedding call.
UpdateRequestWithoutFind(a, id, text) ==
    /\ FreeAdminSlot(a)
    /\ nMutations' = nMutations + 1
    /\ IF ~embeddingModel
       THEN /\ Unanswered
            /\ UNCHANGED admin
       ELSE /\ admin' = [admin EXCEPT ![a] =
                           [pc |-> "embed", op |-> "update", id |-> id, text |-> text]]
            /\ UNCHANGED <<out, unanswered>>
    /\ UNCHANGED <<openai, embeddingModel, storeVars, memoryVars, chat, nChats, pushed>>

\* PUT /api/admin/knowledge/:id, up to the await.
UpdateRequest(a, id, text) ==
    /\ FreeAdminSlot(a)
    /\ nMutations' = nMutations + 1
    /\ IF ~Has(vectorDatabase, id)
       THEN /\ out' = [Response("update", 404, <<"Not found">>) EXCEPT !.id = id]
            /\ UNCHANGED <<admin, unanswered>>
       ELSE IF ~embeddingModel
       THEN /\ Unanswered
            /\ UNCHANGED admin
       ELSE /\ admin' = [admin EXCEPT ![a] =
                           [pc |-> "embed", op |-> "update", id |-> id, text |-> text]]
            /\ UNCHANGED <<out, unanswered>>
    /\ UNCHANGED <<openai, embeddingModel, storeVars, memoryVars, chat, nChats, pushed>>

\* The embedding arrived: assign the entry's fields, writeFileSync, respond.
UpdateEmbedded(a, vec, written) ==
    /\ admin[a].pc = "embed" /\ admin[a].op = "update"
    /\ vectorDatabase' = Replaced(vectorDatabase, admin[a].id, admin[a].text, vec)
    /\ admin' = [admin EXCEPT ![a] = IdleAdmin]
    /\ IF written
       THEN /\ snapshot' = File(Stringify(vectorDatabase'))
            /\ out' = [Response("update", 200, <<"Updated">>) EXCEPT !.id = admin[a].id]
            /\ UNCHANGED unanswered
       ELSE /\ Unanswered
            /\ UNCHANGED snapshot
    /\ UNCHANGED <<openai, embeddingModel, memoryVars, chat, nChats, nMutations, pushed>>

\* embedContent rejected inside an async admin handler.
AdminEmbedFailed(a) ==
    /\ admin[a].pc = "embed"
    /\ admin' = [admin EXCEPT ![a] = IdleAdmin]
    /\ Unanswered
    /\ UNCHANGED <<openai, embeddingModel, storeVars, memoryVars, chat, nChats,
                   nMutations, pushed>>

\* Mutant of Delete: the file is written before the array is filtered.
DeleteWritesFirst(id, written) ==
    /\ nMutations' = nMutations + 1
    /\ vectorDatabase' = Without(vectorDatabase, id)
    /\ IF written
       THEN /\ snapshot' = File(Stringify(vectorDatabase))
            /\ out' = [Response("delete", 200, <<"Deleted">>) EXCEPT !.id = id]
       ELSE /\ out' = [Response("delete", 500, <<"Internal Server Error">>)
                          EXCEPT !.id = id]
            /\ UNCHANGED snapshot
    /\ UNCHANGED <<openai, embeddingModel, memoryVars, chat, admin, nChats,
                   unanswered, pushed>>

\* DELETE /api/admin/knowledge/:id: synchronous.  A throw of writeFileSync
\* reaches Express's default error handler, which answers 500.
Delete(id, written) ==
    /\ nMutations' = nMutations + 1
    /\ vectorDatabase' = Without(vectorDatabase, id)
    /\ IF written
       THEN /\ snapshot' = File(Stringify(vectorDatabase'))
            /\ out' = [Response("delete", 200, <<"Deleted">>) EXCEPT !.id = id]
       ELSE /\ out' = [Response("delete", 500, <<"Internal Server Error">>)
                          EXCEPT !.id = id]
            /\ UNCHANGED snapshot
    /\ UNCHANGED <<openai, embeddingModel, memoryVars, chat, admin, nChats,
                   unanswered, pushed>>

\* GET /api/admin/knowledge: res.json(vectorDatabase), the array as it is.
Listing ==
    /\ out' = [Response("list", 200, << >>) EXCEPT !.entries = Stringify(vectorDatabase)]
    /\ UNCHANGED <<openai, embeddingModel, storeVars, memoryVars, chat, admin,
                   nChats, nMutations, unanswered, pushed>>

---------------------------------------------------------------------------
(* Specification *)

\* Vectors the Embedding Gateway may return.
Vectors == {<<0, 0>>, <<1, 0>>, <<0, 1>>, <<1, 1>>}

\* Ids an admin may name: the ids of the loaded entries and the ids ingests
\* give out (in the store once ingested, absent before and after a delete).
TargetIds ==
    {e.id : e \in UNION {Range(db) : db \in InitStores}}
        \cup {FreshId(n) : n \in 1..MaxMutations}

\* The chat traffic, with at most `most` requests admitted.
ChatSteps(most, vectors, replies) ==
    \/ \E r \in ChatSlots, s \in Sessions, q \in Questions \cup {""} :
         nChats < most /\ ChatRequest(r, s, q)
    \/ \E r \in ChatSlots, qv \in vectors : ChatEmbedded(r, qv)
    \/ \E r \in ChatSlots : ChatEmbedFailed(r)
    \/ \E r \in ChatSlots, cause \in Causes : ChatCompleteFailed(r, cause)
    \/ \E r \in ChatSlots, reply \in replies : ChatCompleted(r, reply)

\* An Embedding Gateway that may return any of `vectors` for any text.
Any(vectors) == [t \in Texts |-> vectors]

\* The admin traffic, with at most `most` requests admitted; embeds[text] are
\* the vectors embedContent(text) may resolve with.
AdminSteps(most, embeds) ==
    \/ \E a \in AdminSlots, text \in Texts \cup {""} :
         nMutations < most /\ IngestRequest(a, text)
    \/ \E a \in AdminSlots, written \in BOOLEAN :
         /\ admin[a].pc = "embed"
         /\ \E vec \in embeds[admin[a].text] : IngestEmbedded(a, vec, written)
    \/ \E a \in AdminSlots, id \in TargetIds, text \in Texts :
         nMutations < most /\ UpdateRequest(a, id, text)
    \/ \E a \in AdminSlots, written \in BOOLEAN :
         /\ admin[a].pc = "embed"
         /\ \E vec \in embeds[admin[a].text] : UpdateEmbedded(a, vec, written)
    \/ \E a \in AdminSlots : AdminEmbedFailed(a)
    \/ \E id \in TargetIds, written \in BOOLEAN :
         nMutations < most /\ Delete(id, written)

\* Chat and admin requests together: a question embeds as <<1, 0>>, an
\* ingested or updated text as <<0, 1>>.
Next ==
    \/ ChatSteps(MixedChats, {<<1, 0>>}, {"a1"})
    \/ AdminSteps(MixedMutations, Any({<<0, 1>>}))
    \/ Listing

Spec == Init /\ [][Next]_vars

\* Chat requests only: nobody is logged in as admin. One vector and one reply
\* text: the turns of a session differ by their questions.
NextChat == ChatSteps(MaxChats, {<<1, 0>>}, {"a1"})

\* The store is empty or holds one entry, and its file exists: the chat
\* handler reads the store's length only to decide whether to embed.
InitChat == Init /\ snapshot.exists /\ Len(vectorDatabase) <= 1

SpecChat == InitChat /\ [][NextChat]_vars

\* A gateway call of chat request r returns or fails.
ChatReturns(r) ==
    \/ ChatEmbedded(r, <<1, 0>>)
    \/ ChatEmbedFailed(r)
    \/ \E cause \in Causes : ChatCompleteFailed(r, cause)
    \/ ChatCompleted(r, "a1")

\* The embedding call of admin request a returns or fails.
AdminReturns(a) ==
    \/ \E written \in BOOLEAN : IngestEmbedded(a, <<0, 1>>, written)
    \/ \E written \in BOOLEAN : UpdateEmbedded(a, <<0, 1>>, written)
    \/ AdminEmbedFailed(a)

\* Every gateway call eventually returns or fails.
GatewaysReturn ==
    /\ \A r \in ChatSlots : WF_vars(ChatReturns(r))
    /\ \A a \in AdminSlots : WF_vars(AdminReturns(a))

\* Chat and admin requests together, every gateway call returning or failing.
NextLive ==
    \/ ChatSteps(LiveChats, {<<1, 0>>}, {"a1"})
    \/ AdminSteps(LiveMutations, Any({<<0, 1>>}))

SpecLive == InitChat /\ [][NextLive]_vars /\ GatewaysReturn

\* Admin requests only; the completion client plays no part.
InitStore == Init /\ openai

NextStore == AdminSteps(MaxMutations, Any({<<1, 0>>}))

SpecStore == InitStore /\ [][NextStore]_vars

\* Admin requests whose embeddings come in two lengths.
DimVectors == {<<1, 0>>, <<1, 0, 0>>}

NextDims == AdminSteps(MaxMutations, Any(DimVectors))

SpecDims == InitStore /\ [][NextDims]_vars

\* An Embedding Gateway that is a function of the text: the vectors the
\* loaded entries carry for their texts.
EmbeddingOf == [t \in Texts |-> IF t = "t1" THEN <<1, 0>> ELSE <<0, 1>>]

Faithful == [t \in Texts |-> {EmbeddingOf[t]}]

\* Chats, mutations and listings together, both handles present, with the
\* gateway that is a function of the text.
InitTorn == Init /\ openai /\ embeddingModel /\ snapshot.exists

NextTorn ==
    \/ ChatSteps(TornChats, {<<1, 0>>}, {"a1"})
    \/ AdminSteps(TornMutations, Faithful)
    \/ Listing

SpecTorn == InitTorn /\ [][NextTorn]_vars

\* Chat requests that all wait for an embedding (both handles present, one
\* entry in the store), enough of them to fill a history and overlap after.
InitAlias == InitChat /\ openai /\ embeddingModel /\ Len(vectorDatabase) = 1

NextAlias == ChatSteps(AliasChats, {<<1, 0>>}, {"a1"})

SpecAlias == InitAlias /\ [][NextAlias]_vars

\* Requests of one session with two reply texts, so that a turn shows which
\* reply it carries.
NextPairs ==
    /\ ChatSteps(PairChats, {<<1, 0>>}, Replies)
    /\ \A r \in ChatSlots : chat'[r].session # "s2"

SpecPairs == InitAlias /\ [][NextPairs]_vars

\* Chat requests against every store, both handles present.
InitRank == InitWith(InitStores \cup RankStores) /\ openai /\ embeddingModel

NextRank == ChatSteps(RankChats, Vectors, Replies)

SpecRank == InitRank /\ [][NextRank]_vars

---------------------------------------------------------------------------
(* Vocabulary of the properties *)

\* conversationMemory.get(s) || []
HistoryIn(mem, hp, s) == IF mem[s] = NoArr THEN << >> ELSE hp[mem[s]]

StoredHistory(s) == HistoryIn(conversationMemory, heap, s)

\* A step in which request r is answered 200 / answered 500 after validation.
ChatSucceeds(r) ==
    chat[r].pc = "complete" /\ chat'[r].pc = "idle" /\ out'.op = "chat" /\ out'.status = 200

ChatFails(r) ==
    chat[r].pc \in {"embed", "complete"} /\ chat'[r].pc = "idle" /\ out'.status = 500

\* The pair request r appends when it is answered with out'.
PairOf(r) == <<UserTurn(chat[r].question), [role |-> "assistant", content |-> out'.body]>>

\* No other request of the session has written the Map since r read it.
ReadIsCurrent(r) ==
    \/ conversationMemory[chat[r].session] = NoArr
    \/ conversationMemory[chat[r].session] = chat[r].history

---------------------------------------------------------------------------
C2_FailureLeavesMemory ==
    [][/\ \A r \in ChatSlots :
            ChatFails(r) =>
              /\ conversationMemory' = conversationMemory
              /\ \A s \in Sessions :
                    HistoryIn(conversationMemory', heap', s) = StoredHistory(s)
              /\ \A o \in ChatSlots \ {r} :
                    chat[o].pc # "idle" => heap'[chat[o].history] = heap[chat[o].history]
       /\ (\E s \in Sessions :
              HistoryIn(conversationMemory', heap', s) # StoredHistory(s)
              \/ conversationMemory'[s] # conversationMemory[s]) =>
            \E r \in ChatSlots :
              /\ ChatSucceeds(r)
              /\ LET now == HistoryIn(conversationMemory', heap', chat[r].session)
                 IN  /\ Len(now) >= 2
                     /\ SubSeq(now, Len(now) - 1, Len(now)) = PairOf(r)
                     /\ \A s \in Sessions \ {chat[r].session} :
                           /\ conversationMemory'[s] = conversationMemory[s]
                           /\ HistoryIn(conversationMemory', heap', s) = StoredHistory(s)]_vars

\* A request failed after validation, while a session holds history and
\* another request of that session is in flight.
C2_Witness ==
    /\ out.op = "chat" /\ out.status = 500 /\ out.body = <<"AI service error">>
    /\ \E s \in Sessions : StoredHistory(s) # << >>
    /\ \E r \in ChatSlots : chat[r].pc # "idle"

(* C3: a chat request that is answered leaves the session's history with   *)
(* its own pair after everything the session stored before, whether or not *)
(* another request of the session wrote in between: no stored turn is lost *)
(* except to the cap W.                                                    *)
C3_OverlapLosesNothing ==
    [][\A r \in ChatSlots :
          ChatSucceeds(r) =>
              HistoryIn(conversationMemory', heap', chat[r].session)
                = LastN(StoredHistory(chat[r].session) \o PairOf(r),
                        MAX_MEMORY_MESSAGES)]_vars

---------------------------------------------------------------------------
(* Vocabulary of the store properties *)

\* The file holds exactly the entries of db: same order, and the same id,
\* text, vector and update stamp for each.
SameEntries(file, db) ==
    /\ file.exists
    /\ Len(file.json) = Len(db)
    /\ \A i \in DOMAIN db :
          /\ file.json[i].id = db[i].id
          /\ file.json[i].text = db[i].text
          /\ file.json[i].embedding = db[i].embedding
          /\ file.json[i].updatedAt = db[i].updatedAt

\* A step in which the ingest / update of slot a is answered 200.
IngestAnswered(a) ==
    /\ admin[a].pc = "embed" /\ admin[a].op = "ingest"
    /\ admin'[a].pc = "idle" /\ unanswered' = unanswered

UpdateAnswered(a) ==
    /\ admin[a].pc = "embed" /\ admin[a].op = "update"
    /\ admin'[a].pc = "idle" /\ unanswered' = unanswered

\* A step in which a delete request runs / is answered 200.
DeleteRuns ==
    nMutations' = nMutations + 1 /\ admin' = admin /\ unanswered' = unanswered
        /\ out'.op = "delete"

DeleteAnswered == DeleteRuns /\ out'.status = 200

OtherIds(db, id) == SelectSeq(db, LAMBDA e : e.id # id)

C5_SnapshotMatchesOnSuccess ==
    [][((\E a \in AdminSlots : IngestAnswered(a) \/ UpdateAnswered(a)) \/ DeleteAnswered)
          => SameEntries(snapshot', vectorDatabase')]_vars

\* An update was answered while another admin request waits for its
\* embedding, and the file holds the updated entry.
C5_Witness ==
    /\ out.op = "update" /\ out.status = 200
    /\ \E i \in DOMAIN vectorDatabase :
          vectorDatabase[i].id = out.id /\ vectorDatabase[i].updatedAt = 1
    /\ \E a \in AdminSlots : admin[a].pc = "embed"
    /\ SameEntries(snapshot, vectorDatabase)

(* C10: delete is idempotent.  A delete that is answered 200 leaves no     *)
(* entry with its id, leaves every entry with another id as it was and in  *)
(* the same order, and the file holds the resulting entries; when no entry *)
(* had the id, the store is unchanged, and so is a file that matched it.   *)
C10_DeleteIdempotent ==
    [][DeleteAnswered =>
          /\ ~Has(vectorDatabase', out'.id)
          /\ OtherIds(vectorDatabase', out'.id) = OtherIds(vectorDatabase, out'.id)
          /\ SameEntries(snapshot', vectorDatabase')
          /\ ~Has(vectorDatabase, out'.id) =>
                /\ vectorDatabase' = vectorDatabase
                /\ SameEntries(snapshot, vectorDatabase) => snapshot' = snapshot]_vars

\* The only mutation so far is an answered delete, and the store still holds
\* both seed entries: the id it named was in no entry.
C10_Witness ==
    /\ nMutations = 1
    /\ out.op = "delete" /\ out.status = 200
    /\ Len(vectorDatabase) = 2
    /\ SameEntries(snapshot, vectorDatabase)

---------------------------------------------------------------------------
(* Vocabulary of the retrieval properties *)

\* The request has ranked the store and sent its prompt.
HasRanked(r) == chat[r].pc = "complete" /\ chat[r].qv # << >>

\* The context in the system message request r sent: what follows the persona.
ContextSent(r) ==
    SubSeq(chat[r].messages[1].content, Len(PERSONA) + 1,
           Len(chat[r].messages[1].content))

\* score > ThresholdNum / ThresholdDen, for a score num / sqrt(den).
AboveThreshold(x) ==
    /\ ~x.nan
    /\ x.num > 0
    /\ x.num * x.num * ThresholdDen * ThresholdDen > ThresholdNum * ThresholdNum * x.den

\* x >= y, for two scores that are numbers.
AtLeast(x, y) == ~x.nan /\ ~y.nan /\ ~ScoreLess(x, y)

\* Every score request r computed is a number.
AllNumbers(r) ==
    \A k \in DOMAIN vectorDatabase :
        ~InlineScore(chat[r].qv, vectorDatabase[k].embedding).nan

ZeroNorm(v) == \A i \in DOMAIN v : v[i] = 0

(* C6: routing is a hard cutoff: a request that ranked a non-empty store   *)
(* sends retrieved text in its prompt if and only if the top score is      *)
(* strictly above the threshold; at or below it the context is empty.      *)
C6_RoutingCutoff ==
    \A r \in ChatSlots :
        (HasRanked(r) /\ chat[r].ranked # << >> /\ AllNumbers(r)) =>
            (ContextSent(r) # << >> <=> AboveThreshold(chat[r].ranked[1].score))

(* C7: with an empty store a valid chat request calls no embedding, sends  *)
(* the completion call a prompt with an empty context (persona, history,   *)
(* question) and is not answered with an error on account of the store.    *)
C7_EmptyStoreStillAnswers ==
    [][Len(vectorDatabase) = 0 =>
          /\ \A r \in ChatSlots : chat'[r].pc # "embed"
          /\ \A r \in ChatSlots, s \in Sessions, q \in Questions :
                (openai /\ ChatRequest(r, s, q)) =>
                    /\ chat'[r].pc = "complete"
                    /\ chat'[r].qv = << >> /\ chat'[r].ranked = << >>
                    /\ chat'[r].messages =
                          <<[role |-> "system", content |-> PERSONA]>>
                             \o StoredHistory(s) \o <<UserTurn(q)>>
                    /\ out' = out]_vars

\* The store is empty, the embedding model is there, and a chat was answered
\* 200 with the reply of the completion call, its pair stored.
C7_Witness ==
    /\ Len(vectorDatabase) = 0 /\ embeddingModel
    /\ out.op = "chat" /\ out.status = 200 /\ out.body # << >>
    /\ \E s \in Sessions : pushed[s] > 0 /\ StoredHistory(s) # << >>

(* C8: the ranking a request computes has at most K = 3 chunks and no more *)
(* than the store has entries, is ordered non-increasing by score, and     *)
(* holds the K highest-scoring entries: no entry left out scores strictly  *)
(* above a returned one.                                                   *)
C8_TopKDescending ==
    \A r \in ChatSlots :
        HasRanked(r) =>
            LET rk  == chat[r].ranked
                all == ScoreAll(chat[r].qv, vectorDatabase)
            IN  /\ Len(rk) = Min(TopK, Len(vectorDatabase))
                /\ \A i, j \in DOMAIN rk : i < j => AtLeast(rk[i].score, rk[j].score)
                /\ \A k \in DOMAIN all :
                      (\A i \in DOMAIN rk : rk[i].text # all[k].text) =>
                          \A i \in DOMAIN rk : AtLeast(rk[i].score, all[k].score)

(* C9: a zero-norm query or entry vector gives that pair the score 0: no   *)
(* score a request computes or returns is NaN.                             *)
C9_ZeroNormScoresZero ==
    \A r \in ChatSlots :
        HasRanked(r) =>
            /\ \A i \in DOMAIN chat[r].ranked : ~chat[r].ranked[i].score.nan
            /\ \A k \in DOMAIN vectorDatabase :
                  LET x == InlineScore(chat[r].qv, vectorDatabase[k].embedding)
                  IN  (ZeroNorm(chat[r].qv) \/ ZeroNorm(vectorDatabase[k].embedding))
                          => (~x.nan /\ x.num = 0)

---------------------------------------------------------------------------
(* C11: an update that names an id no entry has is answered 404 in the     *)
(* step that admits it: no embedding call is started for it (with or       *)
(* without an embedding model), no entry changes and the file is left as   *)
(* it was.                                                                 *)
C11_UpdateOfMissingId ==
    [][\A a \in AdminSlots, id \in TargetIds, text \in Texts :
          (~Has(vectorDatabase, id) /\ UpdateRequest(a, id, text)) =>
              /\ out'.op = "update" /\ out'.status = 404 /\ out'.id = id
              /\ admin' = admin
              /\ unanswered' = unanswered
              /\ vectorDatabase' = vectorDatabase
              /\ snapshot' = snapshot]_vars

\* An update was answered 404 while the store holds entries, none of them
\* with the id it named, and the file still holds those entries.
C11_Witness ==
    /\ out.op = "update" /\ out.status = 404
    /\ Len(vectorDatabase) > 0
    /\ ~Has(vectorDatabase, out.id)
    /\ SameEntries(snapshot, vectorDatabase)

(* C12: all entries of the store have vectors of one length: an ingest or  *)
(* an update whose embedding has another length than the entries the store *)
(* holds is rejected and leaves the store as it was.                       *)
C12_OneDimension ==
    /\ [](\A i, j \in DOMAIN vectorDatabase :
            Len(vectorDatabase[i].embedding) = Len(vectorDatabase[j].embedding))
    /\ [][\A a \in AdminSlots, vec \in DimVectors, written \in BOOLEAN :
            ((IngestEmbedded(a, vec, written) \/ UpdateEmbedded(a, vec, written))
                /\ \E i \in DOMAIN vectorDatabase :
                      Len(vectorDatabase[i].embedding) # Len(vec))
              => vectorDatabase' = vectorDatabase]_vars

\* The step leaves every session's stored history as it was.
MemoryUntouched ==
    \A s \in Sessions : HistoryIn(conversationMemory', heap', s) = StoredHistory(s)

(* C13: a valid chat request against a non-empty store fails with 500 when *)
(* there is no embedding model or its call fails: the request ends there,  *)
(* no prompt goes to the completion client, no answer is returned and the  *)
(* stored histories stay as they were.                                     *)
C13_EmbeddingUnavailableFails ==
    /\ [][\A r \in ChatSlots, s \in Sessions, q \in Questions :
            (/\ openai /\ ~embeddingModel /\ Len(vectorDatabase) > 0
             /\ ChatRequest(r, s, q))
              => /\ out'.op = "chat" /\ out'.status = 500
                 /\ chat'[r].pc = "idle"
                 /\ MemoryUntouched]_vars
    /\ [][\A r \in ChatSlots :
            ChatEmbedFailed(r)
              => /\ out'.op = "chat" /\ out'.status = 500
                 /\ chat'[r].pc = "idle"
                 /\ MemoryUntouched]_vars

(* C14: the answer to a failed completion call follows the cause the call  *)
(* reports: quota or rate exhaustion is answered 429, any other failure    *)
(* 500; a rate-limit failure is never answered 500.                        *)
C14_RateLimitIs429 ==
    [][\A r \in ChatSlots :
          /\ ChatCompleteFailed(r, "rate_limit")
                => (out'.op = "chat" /\ out'.status = 429)
          /\ ChatCompleteFailed(r, "other")
                => (out'.op = "chat" /\ out'.status = 500)]_vars

(* C15: a chat request with a missing or empty question is answered 400 in *)
(* the step that admits it, whether or not the completion client and the   *)
(* embedding model are there: no gateway call is started, and the store,   *)
(* the Map and the history arrays are left as they were.                   *)
C15_EmptyQuestionIs400 ==
    [][\A r \in ChatSlots, s \in Sessions :
          ChatRequest(r, s, "") =>
              /\ out'.op = "chat" /\ out'.status = 400
              /\ chat' = chat
              /\ UNCHANGED <<storeVars, memoryVars>>]_vars

\* The step answers 500 to the request it ends.
AnsweredFailed == out'.status = 500 /\ unanswered' = unanswered

(* C16: when writeFileSync fails in an ingest, an update or a delete, the  *)
(* request is answered 500, and the in-memory store does not keep the      *)
(* mutation of that request while the file holds the content from before.  *)
C16_WriteFailureIsReported ==
    [][/\ \A a \in AdminSlots, vec \in Vectors :
            (IngestEmbedded(a, vec, FALSE) \/ UpdateEmbedded(a, vec, FALSE))
                => (AnsweredFailed /\ vectorDatabase' = vectorDatabase)
       /\ \A id \in TargetIds :
            Delete(id, FALSE)
                => (AnsweredFailed /\ vectorDatabase' = vectorDatabase)]_vars

\* list holds an entry of this id with this text and vector.
Holds(list, id, text, vec) ==
    \E i \in DOMAIN list :
        list[i].id = id /\ list[i].text = text /\ list[i].embedding = vec

(* C17: whenever an update of id X is answered 200, the store then holds   *)
(* an entry of id X with the text and the vector of that request, and so   *)
(* does the file, whatever other requests ran while the update waited for  *)
(* its embedding.                                                          *)
C17_UpdatedEntryIsThere ==
    [][\A a \in AdminSlots, vec \in Vectors :
          (UpdateEmbedded(a, vec, TRUE) /\ out'.status = 200) =>
              /\ Holds(vectorDatabase', admin[a].id, admin[a].text, vec)
              /\ snapshot'.exists
              /\ Holds(snapshot'.json, admin[a].id, admin[a].text, vec)]_vars

\* Every entry of list carries the embedding of its own text.
Untorn(list) ==
    \A i \in DOMAIN list : list[i].embedding = EmbeddingOf[list[i].text]

(* C18: no read sees the store in the middle of a mutation.  In every      *)
(* state each entry of the store, and each entry the admin listing         *)
(* returned, carries the embedding of its own text; the chunks a chat      *)
(* request ranked are entries of the store as it is in the one step that   *)
(* scores them, each scored on the embedding of its own text.              *)
C18_NoTornRead ==
    /\ [](Untorn(vectorDatabase) /\ Untorn(out.entries))
    /\ [](\A r \in ChatSlots :
            HasRanked(r) =>
                \A i \in DOMAIN chat[r].ranked :
                    chat[r].ranked[i].score =
                        InlineScore(chat[r].qv, EmbeddingOf[chat[r].ranked[i].text]))
    /\ [][\A r \in ChatSlots :
            (chat[r].pc = "embed" /\ chat'[r].pc = "complete") =>
                /\ Len(chat'[r].ranked) = Min(TopK, Len(vectorDatabase))
                /\ \A i \in DOMAIN chat'[r].ranked :
                      \E k \in DOMAIN vectorDatabase :
                          /\ chat'[r].ranked[i].text = vectorDatabase[k].text
                          /\ chat'[r].ranked[i].score =
                                InlineScore(chat'[r].qv, vectorDatabase[k].embedding)]_vars

\* A chat request has ranked a store in which the entry of id 1 was updated
\* from t1 to t2: the updated text is among its chunks, scored 0 on the
\* vector of t2.
C18_Witness ==
    \E r \in ChatSlots, k \in DOMAIN vectorDatabase :
      \E i \in DOMAIN chat[r].ranked :
        /\ HasRanked(r)
        /\ vectorDatabase[k].id = 1 /\ vectorDatabase[k].text = "t2"
        /\ vectorDatabase[k].updatedAt = 1
        /\ chat[r].ranked[i].text = "t2"
        /\ chat[r].ranked[i].score = Num(0, 1)

\* The history request r found when it read the Map: the first `seen` turns
\* of its array, which only grows.
HistoryRead(r) == SubSeq(heap[chat[r].history], 1, chat[r].seen)

(* C19: the messages a chat request sends to the completion client are one *)
(* system message (the persona followed by the context), then the history  *)
(* the session stores (as the request read it, or as it is stored when the *)
(* messages are sent), in order, then the user message with the new        *)
(* question as the last element; with no stored history, the system        *)
(* message and the user message only.                                      *)
C19_MessageSequence ==
    [][\A r \in ChatSlots :
          (chat[r].pc # "complete" /\ chat'[r].pc = "complete") =>
              LET m == chat'[r].messages
              IN  /\ Len(m) >= 2
                  /\ m[1] = [role |-> "system",
                             content |-> PERSONA \o ContextOf(chat'[r].ranked)]
                  /\ m[Len(m)] = UserTurn(chat'[r].question)
                  /\ \/ SubSeq(m, 2, Len(m) - 1) = SubSeq(heap[chat'[r].history], 1, chat'[r].seen)
                     \/ SubSeq(m, 2, Len(m) - 1) = StoredHistory(chat'[r].session)]_vars

\* The score with the guard `if (normA === 0 || normB === 0) return 0`.
cosineSimilarity(vecA, vecB) ==
    IF ZeroNorm(vecA) \/ ZeroNorm(vecB) THEN Num(0, 1) ELSE InlineScore(vecA, vecB)

\* The top-K chunks by guarded score, descending, equal scores in store order.
TopChunks(qv, db) ==
    Slice(StableSort([i \in 1..Len(db) |->
                        [text |-> db[i].text,
                         score |-> cosineSimilarity(qv, db[i].embedding)]]),
          TopK)

(* C20: when the top score is above the threshold, the context sent is the *)
(* texts of the top-K chunks in descending order of score, chunks of equal *)
(* score in store order, joined by a blank line; for a store of one entry  *)
(* it is that entry's text, as it is.                                      *)
C20_GroundedContext ==
    \A r \in ChatSlots :
        HasRanked(r) =>
            LET want == TopChunks(chat[r].qv, vectorDatabase)
            IN  (want # << >> /\ AboveThreshold(want[1].score)) =>
                    /\ ContextSent(r) = ContextOf(want)
                    /\ Len(vectorDatabase) = 1 =>
                          ContextSent(r) = Str(vectorDatabase[1].text)

---------------------------------------------------------------------------
\* Request r ends in this step.
ChatEnds(r) == chat[r].pc # "idle" /\ chat'[r].pc = "idle"

(* C21: sessions are independent.  A step of the chat handler changes the  *)
(* stored history of a session, or creates its key, only if it ends a      *)
(* request of that very session; and no step of the chat handler changes   *)
(* the store or its file.                                                  *)
C21_SessionsIndependent ==
    [][/\ vectorDatabase' = vectorDatabase
       /\ snapshot' = snapshot
       /\ \A b \in Sessions :
            (\/ HistoryIn(conversationMemory', heap', b) # StoredHistory(b)
             \/ (conversationMemory'[b] = NoArr) # (conversationMemory[b] = NoArr))
              => \E r \in ChatSlots : ChatEnds(r) /\ chat[r].session = b]_vars

\* Both sessions store history, not the same, a request of s1 was answered
\* last, and a request of s2 is in flight.
C21_Witness ==
    /\ StoredHistory("s1") # << >> /\ StoredHistory("s2") # << >>
    /\ StoredHistory("s1") # StoredHistory("s2")
    /\ out.op = "chat" /\ out.status = 200
    /\ StoredHistory("s1")[Len(StoredHistory("s1"))] = [role |-> "assistant", content |-> out.body]
    /\ \E r \in ChatSlots : chat[r].pc # "idle" /\ chat[r].session = "s2"

\* The history part of the messages request r sent: between the system
\* message and the user message.
HistorySent(r) == SubSeq(chat[r].messages, 2, Len(chat[r].messages) - 1)

(* C22: the history part of every message sequence sent to the completion  *)
(* client has at most W = 6 turns, and when it is sent it has no more      *)
(* turns than Conversation Memory holds for the session, whatever requests *)
(* of the session completed between the read of the Map and the send.      *)
C22_PromptHistoryBounded ==
    /\ [](\A r \in ChatSlots :
            chat[r].pc = "complete" => Len(HistorySent(r)) <= MAX_MEMORY_MESSAGES)
    /\ [][\A r \in ChatSlots :
            (chat[r].pc # "complete" /\ chat'[r].pc = "complete") =>
                LET sent == SubSeq(chat'[r].messages, 2, Len(chat'[r].messages) - 1)
                IN  Len(sent) <= Len(StoredHistory(chat'[r].session))]_vars

\* h is a sequence of (user, assistant) pairs.
Intact(h) ==
    /\ Len(h) % 2 = 0
    /\ \A i \in DOMAIN h :
          h[i].role = (IF i % 2 = 1 THEN "user" ELSE "assistant")

\* The (user, assistant) pairs of h.
PairsOf(h) == {<<h[i], h[i + 1]>> : i \in {j \in 1..(Len(h) - 1) : j % 2 = 1}}

(* C23: every stored history, and every array a request holds, is a        *)
(* sequence of intact pairs: even length, user turns at odd positions,     *)
(* each followed by an assistant turn.  Each pair is a question with the   *)
(* reply produced for it: a request that is answered stores a history      *)
(* whose last pair is its own question and the reply it returns, and whose *)
(* other pairs are pairs of the array it read, truncation included.        *)
C23_IntactPairs ==
    /\ [](\A a \in ArrIds : Intact(heap[a]))
    /\ [][\A r \in ChatSlots :
            ChatSucceeds(r) =>
                LET now == HistoryIn(conversationMemory', heap', chat[r].session)
                IN  /\ Intact(now)
                    /\ Len(now) >= 2
                    /\ SubSeq(now, Len(now) - 1, Len(now)) = PairOf(r)
                    /\ PairsOf(SubSeq(now, 1, Len(now) - 2))
                          \subseteq PairsOf(heap[chat[r].history])]_vars

\* A session was truncated to W turns, and its history holds pairs with
\* different questions and different replies.
C23_Witness ==
    \E s \in Sessions :
        /\ pushed[s] > MAX_MEMORY_MESSAGES
        /\ Len(StoredHistory(s)) = MAX_MEMORY_MESSAGES
        /\ \E p, q \in PairsOf(StoredHistory(s)) :
              p[1] # q[1] /\ p[2] # q[2]

(* C24: provided every gateway call returns or fails, every request        *)
(* eventually ends, and it ends with a response: a chat request with an    *)
(* answer or an error body, an admin request (ingest and update with a     *)
(* failed embedding call, an absent handle or a failed write included)     *)
(* with a response too, none left without one.                             *)
C24_EveryRequestAnswered ==
    /\ \A r \in ChatSlots : (chat[r].pc # "idle") ~> (chat[r].pc = "idle")
    /\ \A a \in AdminSlots : (admin[a].pc # "idle") ~> (admin[a].pc = "idle")
    /\ [][\A r \in ChatSlots :
            ChatEnds(r) => out'.op = "chat" /\ out'.status \in {200, 429, 500}]_vars
    /\ [][unanswered' = unanswered]_vars

===========================================================================
